---- MODULE Spec2Model ----
(***************************************************************************)
(* Material counter: extraction of (circle code, material code, page)      *)
(* records from the text of engineering drawings (src/main.py).            *)
(*                                                                         *)
(* Text is a sequence of one-character strings.  Two characters outside    *)
(* ASCII are written as named atoms: "RSQUO" is U+2019, "LIGFI" is U+FB01  *)
(* and "LIGFL" is U+FB02.                                                  *)
(***************************************************************************)
EXTENDS Integers, Sequences, FiniteSets, TLC

(***************************************************************************)
(* Characters and character classes of Python's re module                  *)
(***************************************************************************)
Digit == {"0", "1", "2", "3", "4", "5", "6", "7", "8", "9"}

UpperLetters ==
  <<"A", "B", "C", "D", "E", "F", "G", "H", "I", "J", "K", "L", "M",
    "N", "O", "P", "Q", "R", "S", "T", "U", "V", "W", "X", "Y", "Z">>

LowerLetters ==
  <<"a", "b", "c", "d", "e", "f", "g", "h", "i", "j", "k", "l", "m",
    "n", "o", "p", "q", "r", "s", "t", "u", "v", "w", "x", "y", "z">>

Upper == {UpperLetters[k] : k \in 1..26}

Lower == {LowerLetters[k] : k \in 1..26}

Alnum == Digit \cup Upper \cup Lower

\* \w of the re module
WordChar == Alnum \cup {"_"}

\* \s of the re module, also what str.strip() removes
Space == {" ", "\t", "\n", "\r"}

\* str.upper() on one character
UpperChar(c) ==
  IF c \in Lower THEN UpperLetters[CHOOSE k \in 1..26 : LowerLetters[k] = c] ELSE c

\* str.lower() on one character
LowerChar(c) ==
  IF c \in Upper THEN LowerLetters[CHOOSE k \in 1..26 : UpperLetters[k] = c] ELSE c

\* str.upper()
upper(s) == [k \in 1..Len(s) |-> UpperChar(s[k])]

(***************************************************************************)
(* String primitives                                                       *)
(***************************************************************************)
\* s[p:] in Python terms, p is 1-based here
From(s, p) == SubSeq(s, p, Len(s))

\* the literal lit stands at position p of s
HasAt(s, p, lit) ==
  /\ p >= 1
  /\ p + Len(lit) - 1 <= Len(s)
  /\ \A k \in 1..Len(lit) : s[p + k - 1] = lit[k]

\* the literal lit (given in lower case) stands at position p, ignoring case
HasAtCI(s, p, lit) ==
  /\ p >= 1
  /\ p + Len(lit) - 1 <= Len(s)
  /\ \A k \in 1..Len(lit) : LowerChar(s[p + k - 1]) = lit[k]

\* the least element of a non-empty set of integers
Least(S) == CHOOSE a \in S : \A b \in S : a <= b

\* the first position from p on that holds a character outside S, the
\* position after the end of s when there is none
FirstOutside(s, p, stops) ==
  IF stops # {} THEN Least(stops) ELSE IF p > Len(s) THEN p ELSE Len(s) + 1

\* the position after the longest run of characters of class S that starts at p
SkipWhile(s, p, S) == FirstOutside(s, p, {q \in p..Len(s) : s[q] \notin S})

\* the last position of s before which everything from there on is in S, going left
RECURSIVE SkipBack(_, _, _)
SkipBack(s, p, S) ==
  IF p >= 1 /\ s[p] \in S THEN SkipBack(s, p - 1, S) ELSE p

\* str.strip()
strip(s) ==
  LET a == SkipWhile(s, 1, Space)
      b == SkipBack(s, Len(s), Space)
  IN IF a > b THEN <<>> ELSE SubSeq(s, a, b)

\* str.rstrip(chars)
rstrip(s, S) == SubSeq(s, 1, SkipBack(s, Len(s), S))

\* str.replace(old, new): non-overlapping occurrences, left to right
RECURSIVE replace(_, _, _)
replace(s, old, new) ==
  IF \A q \in 1..Len(s) : ~HasAt(s, q, old) THEN s
  ELSE SubSeq(s, 1, Least({q \in 1..Len(s) : HasAt(s, q, old)}) - 1) \o new
         \o replace(From(s, Least({q \in 1..Len(s) : HasAt(s, q, old)}) + Len(old)), old, new)

\* re.sub(r"[...]", "", s): drop every character of class S
DropChars(s, S) == SelectSeq(s, LAMBDA c : c \notin S)

\* re.sub(r"[...]", to, s): every character of class S becomes to
MapChars(s, S, to) == [k \in 1..Len(s) |-> IF s[k] \in S THEN to ELSE s[k]]

\* re.sub(r"\s+", " ", s)
RECURSIVE CollapseSpace(_)
CollapseSpace(s) ==
  IF \A q \in 1..Len(s) : s[q] \notin Space THEN s
  ELSE SubSeq(s, 1, Least({q \in 1..Len(s) : s[q] \in Space}) - 1) \o <<" ">>
         \o CollapseSpace(From(s, SkipWhile(s, Least({q \in 1..Len(s) : s[q] \in Space}), Space)))

\* str.split(sep) for a one-character separator
RECURSIVE split(_, _)
split(s, sep) ==
  LET p == SkipWhile(s, 1, {c \in {s[k] : k \in 1..Len(s)} : c # sep})
  IN IF p > Len(s) THEN <<s>>
     ELSE <<SubSeq(s, 1, p - 1)>> \o split(From(s, p + 1), sep)

\* "\n".join(parts)
RECURSIVE join(_)
join(parts) ==
  IF Len(parts) = 0 THEN <<>>
  ELSE IF Len(parts) = 1 THEN parts[1]
  ELSE parts[1] \o <<"\n">> \o join(Tail(parts))

\* \s*tok\s* at position q: the position after the match, 0 for no match
AroundEnd(s, q, tok) ==
  IF HasAt(s, SkipWhile(s, q, Space), tok)
  THEN SkipWhile(s, SkipWhile(s, q, Space) + Len(tok), Space)
  ELSE 0

\* re.sub(r"\s*tok\s*", tok, s) for a literal tok: white space around tok goes
RECURSIVE TightenAround(_, _)
TightenAround(s, tok) ==
  IF \A q \in 1..Len(s) : AroundEnd(s, q, tok) = 0 THEN s
  ELSE SubSeq(s, 1, Least({q \in 1..Len(s) : AroundEnd(s, q, tok) # 0}) - 1) \o tok
         \o TightenAround(
              From(s, AroundEnd(s, Least({q \in 1..Len(s) : AroundEnd(s, q, tok) # 0}), tok)),
              tok)

\* =\s* at position b, L\s*=\s* at position a, ,\s*L\s*=\s* at position p
LengthEquals(s, b) == IF HasAt(s, b, <<"=">>) THEN SkipWhile(s, b + 1, Space) ELSE 0

LengthLetter(s, a) ==
  IF HasAt(s, a, <<"L">>) THEN LengthEquals(s, SkipWhile(s, a + 1, Space)) ELSE 0

LengthComma(s, p) ==
  IF HasAt(s, p, <<",">>) THEN LengthLetter(s, SkipWhile(s, p + 1, Space)) ELSE 0

\* \s*,\s*L\s*=\s* at position q: the position after the match, 0 for no match
LengthEnd(s, q) == LengthComma(s, SkipWhile(s, q, Space))

\* re.sub(r"\s*,\s*L\s*=\s*", ",L=", s)
RECURSIVE TightenLength(_)
TightenLength(s) ==
  IF \A q \in 1..Len(s) : LengthEnd(s, q) = 0 THEN s
  ELSE SubSeq(s, 1, Least({q \in 1..Len(s) : LengthEnd(s, q) # 0}) - 1) \o <<",", "L", "=">>
         \o TightenLength(From(s, LengthEnd(s, Least({q \in 1..Len(s) : LengthEnd(s, q) # 0}))))

(***************************************************************************)
(* The patterns of extract_all_codes                                       *)
(*                                                                         *)
(* A match is reported as the position after its last character, 0 when    *)
(* the pattern does not match at the given position.                       *)
(***************************************************************************)
\* (?:/\d+)* from position p
RECURSIVE SlashNumbers(_, _)
SlashNumbers(s, p) ==
  IF HasAt(s, p, <<"/">>) /\ SkipWhile(s, p + 1, Digit) > p + 1
  THEN SlashNumbers(s, SkipWhile(s, p + 1, Digit))
  ELSE p

\* (?:\d+(?:/\d+)*)? from position p
OptNumbers(s, p) ==
  LET a == SkipWhile(s, p, Digit)
  IN IF a = p THEN p ELSE SlashNumbers(s, a)

\* (?:lit)? at position p, lit given in lower case
Optional(s, p, lit) == IF HasAtCI(s, p, lit) THEN p + Len(lit) ELSE p

\* Format 1: \d+Rfi(?:\d+(?:/\d+)*)?(?:cm)?[,]?L=\d+\.?\d*m['']?  (IGNORECASE),
\* read from left to right; every quantifier is greedy and none can give back

\* m['']? at position g
Format1Metre(s, g) ==
  IF ~HasAtCI(s, g, <<"m">>) THEN 0 ELSE Optional(s, g + 1, <<"'">>)

\* \.?\d*m['']? at position e
Format1Fraction(s, e) ==
  Format1Metre(s, SkipWhile(s, Optional(s, e, <<".">>), Digit))

\* \d+\.?\d*m['']? at position f, the digits ending before e
Format1Number(s, f, e) == IF e = f THEN 0 ELSE Format1Fraction(s, e)

\* L=\d+\.?\d*m['']? at position d
Format1Length(s, d) ==
  IF ~HasAtCI(s, d, <<"l", "=">>) THEN 0
  ELSE Format1Number(s, d + 2, SkipWhile(s, d + 2, Digit))

\* (?:\d+(?:/\d+)*)?(?:cm)?[,]?L=... at position b
Format1Sizes(s, b) ==
  Format1Length(s, Optional(s, Optional(s, OptNumbers(s, b), <<"c", "m">>), <<",">>))

\* Rfi... at position a, the leading digits running from p to a
Format1Rfi(s, p, a) ==
  IF a = p \/ ~HasAtCI(s, a, <<"r", "f", "i">>) THEN 0 ELSE Format1Sizes(s, a + 3)

Format1At(s, p) == Format1Rfi(s, p, SkipWhile(s, p, Digit))

\* Format 2: \d+Rfi\d+/\d+cm  (IGNORECASE)

\* Format2Unit with the unit forgotten: \d+ after the slash is enough
Format2UnitNoCm(s, b, c) == IF c = b + 1 THEN 0 ELSE c

\* \d+cm after the slash at position b, the digits ending before c
Format2Unit(s, b, c) ==
  IF c = b + 1 \/ ~HasAtCI(s, c, <<"c", "m">>) THEN 0 ELSE c + 2

\* \d+/\d+cm at position f, the digits ending before b
Format2Slash(s, f, b) ==
  IF b = f \/ ~HasAt(s, b, <<"/">>) THEN 0
  ELSE Format2Unit(s, b, SkipWhile(s, b + 1, Digit))

\* Rfi\d+/\d+cm at position a, the leading digits running from p to a
Format2Rfi(s, p, a) ==
  IF a = p \/ ~HasAtCI(s, a, <<"r", "f", "i">>) THEN 0
  ELSE Format2Slash(s, a + 3, SkipWhile(s, a + 3, Digit))

Format2At(s, p) == Format2Rfi(s, p, SkipWhile(s, p, Digit))

\* an alternation: the first alternative that matches
FirstMatch(e1, e2) == IF e1 # 0 THEN e1 ELSE e2

\* material_pattern at position p: Format 1 is tried first, then Format 2
MaterialAt(s, p) == FirstMatch(Format1At(s, p), Format2At(s, p))

\* material_pattern.search(line): [start, end) of the leftmost match, <<0, 0>> for None
RECURSIVE MaterialSearchFrom(_, _)
MaterialFound(s, p, e) ==
  IF e # 0 THEN <<p, e>> ELSE MaterialSearchFrom(s, p + 1)

MaterialSearchFrom(s, p) ==
  IF p > Len(s) THEN <<0, 0>> ELSE MaterialFound(s, p, MaterialAt(s, p))

material_pattern_search(line) == MaterialSearchFrom(line, 1)

\* strict_circle_pattern: ([A-Z]{1,2}\d{1,2}[a-z]?|\d{1,3}), greedy, the
\* lettered alternative first

\* StrictLetters with the letters taken in either case, as under re.IGNORECASE
StrictLettersAnyCase(s, p) ==
  IF s[p] \notin Upper \cup Lower THEN 0
  ELSE IF p + 2 <= Len(s) /\ s[p + 1] \in Upper \cup Lower /\ s[p + 2] \in Digit THEN p + 2
  ELSE IF p + 1 <= Len(s) /\ s[p + 1] \in Digit THEN p + 1
  ELSE 0

\* [A-Z]{1,2} at position p with a digit after it: the position of that digit
StrictLetters(s, p) ==
  IF s[p] \notin Upper THEN 0
  ELSE IF p + 2 <= Len(s) /\ s[p + 1] \in Upper /\ s[p + 2] \in Digit THEN p + 2
  ELSE IF p + 1 <= Len(s) /\ s[p + 1] \in Digit THEN p + 1
  ELSE 0

\* [a-z]? at position d
StrictSuffix(s, d) == IF d <= Len(s) /\ s[d] \in Lower THEN d + 1 ELSE d

\* \d{1,2}[a-z]? at position u, which holds a digit
StrictDigits(s, u) ==
  StrictSuffix(s, IF u + 1 <= Len(s) /\ s[u + 1] \in Digit THEN u + 2 ELSE u + 1)

\* \d{1,3} at position p, the digits ending before n
StrictNumber(p, n) == IF n = p THEN 0 ELSE IF n > p + 3 THEN p + 3 ELSE n

StrictAlternatives(s, p, u) ==
  IF u # 0 THEN StrictDigits(s, u) ELSE StrictNumber(p, SkipWhile(s, p, Digit))

StrictAt(s, p) ==
  IF p < 1 \/ p > Len(s) THEN 0 ELSE StrictAlternatives(s, p, StrictLetters(s, p))

\* strict_circle_pattern_search taking the last match of the text, not the first
RECURSIVE StrictSearchBack(_, _)
StrictSearchBack(s, p) ==
  IF p < 1 THEN <<0, 0>>
  ELSE IF StrictAt(s, p) # 0 THEN <<p, StrictAt(s, p)>>
  ELSE StrictSearchBack(s, p - 1)

strict_circle_pattern_search_last(text) == StrictSearchBack(text, Len(text))

\* strict_circle_pattern.search(text): [start, end) of the leftmost match
RECURSIVE StrictSearchFrom(_, _)
StrictFound(s, p, e) ==
  IF e # 0 THEN <<p, e>> ELSE StrictSearchFrom(s, p + 1)

StrictSearchFrom(s, p) ==
  IF p > Len(s) THEN <<0, 0>> ELSE StrictFound(s, p, StrictAt(s, p))

strict_circle_pattern_search(text) == StrictSearchFrom(text, 1)

\* strict_circle_pattern.fullmatch(text): the engine backtracks over the letter
\* count, the digit count and the optional suffix until the match ends the text
strict_circle_pattern_fullmatch(text) ==
  LET n == Len(text)
      Lettered(nu, nd, nl) ==
        /\ n = nu + nd + nl
        /\ \A k \in 1..nu : text[k] \in Upper
        /\ \A k \in (nu + 1)..(nu + nd) : text[k] \in Digit
        /\ \A k \in (nu + nd + 1)..n : text[k] \in Lower
  IN \/ \E nu \in {2, 1} : \E nd \in {2, 1} : \E nl \in {1, 0} : Lettered(nu, nd, nl)
     \/ n \in 1..3 /\ \A k \in 1..n : text[k] \in Digit

(***************************************************************************)
(* extract_all_codes: one page of text to records and counts               *)
(***************************************************************************)
\* a record of the results list
Record(circle_code, material, page) ==
  [Circle_Code |-> circle_code, Material_Code |-> material, Page |-> page]

\* AddCount with "=" written for "+=": the count is overwritten
AddCountOverwrite(counts, code, n) ==
  [c \in DOMAIN counts \cup {code} |-> IF c = code THEN n ELSE counts[c]]

\* counts[code] += n on a defaultdict(int)
AddCount(counts, code, n) ==
  IF code \in DOMAIN counts
  THEN [counts EXCEPT ![code] = @ + n]
  ELSE [c \in DOMAIN counts \cup {code} |-> IF c = code THEN n ELSE counts[c]]

\* the empty defaultdict(int)
NoCounts == [c \in {} |-> 0]

\* the quote and carriage-return substitutions, then text.split("\n")
SplitLines(text) ==
  split(DropChars(MapChars(text, {"RSQUO", "'"}, "'"), {"\r"}), "\n")

\* the four re.sub calls and the rstrip on the matched material code
clean_material(material_code) ==
  rstrip(
    TightenAround(
      TightenAround(
        TightenAround(TightenLength(material_code), <<"/">>),
        <<"c", "m">>),
      <<"R", "f", "i">>),
    {"'"})

\* the inner while loop: the index of the first non-empty line from j on, 0 for none
RECURSIVE NextNonEmpty(_, _)
NextNonEmpty(lines, j) ==
  IF j > Len(lines) THEN 0
  ELSE IF strip(lines[j]) # <<>> THEN j
  ELSE NextNonEmpty(lines, j + 1)

\* FullCode with search written for fullmatch: a code anywhere in the line will do
FullCodeBySearch(next_line) ==
  IF strict_circle_pattern_search(next_line)[1] = 0 THEN <<>>
  ELSE SubSeq(next_line, strict_circle_pattern_search(next_line)[1],
              strict_circle_pattern_search(next_line)[2] - 1)

\* the candidate line as a circle code when all of it matches, <<>> for None
FullCode(next_line) ==
  IF strict_circle_pattern_fullmatch(next_line) THEN next_line ELSE <<>>

\* found_code for the candidate line j, 0 when the lines ran out
Candidate(lines, j) == IF j = 0 THEN <<>> ELSE FullCode(strip(lines[j]))

\* found_code after the inner loop, <<>> for None
found_code(lines, i) == Candidate(lines, NextNonEmpty(lines, i + 1))

\* results.append({...}); counts[code] += 1
WithCode(st, code, material, current_page) ==
  [results |-> Append(st.results, Record(code, material, current_page)),
   counts |-> AddCount(st.counts, code, 1)]

\* WithoutCode with the else branch lost: no code, no record
WithoutCodeSkip(st, material, current_page) == st

\* results.append({"Circle Code": "", ...})
WithoutCode(st, material, current_page) ==
  [results |-> Append(st.results, Record(<<>>, material, current_page)),
   counts |-> st.counts]

\* if found_code: ... else: ...
NextLineBranch(st, found, material, current_page) ==
  IF found # <<>> THEN WithCode(st, found, material, current_page)
  ELSE WithoutCode(st, material, current_page)

\* if code_match: ... else: look at the next non-empty line
Associated(st, lines, i, current_page, material, right_text, code_match) ==
  IF code_match[1] # 0
  THEN WithCode(st, SubSeq(right_text, code_match[1], code_match[2] - 1),
                material, current_page)
  ELSE NextLineBranch(st, found_code(lines, i), material, current_page)

\* right_text = line[mat_match.end():]; code_match = strict_circle_pattern.search(right_text)
Associate(st, lines, i, current_page, material, right_text) ==
  Associated(st, lines, i, current_page, material, right_text,
             strict_circle_pattern_search(right_text))

\* if mat_match: ...
Matched(st, lines, i, current_page, line, mat_match) ==
  IF mat_match[1] = 0 THEN st
  ELSE Associate(st, lines, i, current_page,
                 clean_material(SubSeq(line, mat_match[1], mat_match[2] - 1)),
                 From(line, mat_match[2]))

\* if not line: continue; mat_match = material_pattern.search(line)
LineBody(st, lines, i, current_page, line) ==
  IF line = <<>> THEN st
  ELSE Matched(st, lines, i, current_page, line, material_pattern_search(line))

\* one pass of the outer while loop over line i, on st = [results, counts]
LoopBody(st, lines, i, current_page) ==
  LineBody(st, lines, i, current_page, strip(lines[i]))

\* the outer while loop from line i to the end
RECURSIVE LoopFrom(_, _, _, _)
LoopFrom(st, lines, i, current_page) ==
  IF i > Len(lines) THEN st
  ELSE LoopFrom(LoopBody(st, lines, i, current_page), lines, i + 1, current_page)

\* extract_all_codes(text, _, current_page): [results, counts]
extract_all_codes(text, current_page) ==
  LoopFrom([results |-> <<>>, counts |-> NoCounts], SplitLines(text), 1, current_page)

(***************************************************************************)
(* clean_ocr_text: the cleanup applied to OCR output                       *)
(***************************************************************************)
\* the replacements dict, in insertion order: <<wrong, right>>
replacements ==
  << <<<<"LIGFI">>, <<"f", "i">>>>,
     <<<<"LIGFL">>, <<"f", "l">>>>,
     <<<<".", ".">>, <<".">>>>,
     <<<<"c", "m">>, <<"c", "m">>>>,
     <<<<"e", "m">>, <<"c", "m">>>>,
     <<<<"m", "'">>, <<"m">>>>,
     <<<<"m", "\"">>, <<"m">>>>,
     <<<<"L", " ", "=">>, <<"L", "=">>>>,
     <<<<"L", "=", " ">>, <<"L", "=">>>>,
     <<<<" ", ",">>, <<",">>>>,
     <<<<" ", "'">>, <<"'">>>> >>

\* for wrong, right in replacements.items(): text = text.replace(wrong, right)
\* from entry k on; replaced is the value text takes in the pass for entry k
RECURSIVE ApplyReplacements(_, _)
ApplyReplacements(text, k) ==
  IF k > Len(replacements) THEN text
  ELSE CHOOSE out \in {ApplyReplacements(replaced, k + 1) :
                         replaced \in {replace(text, replacements[k][1], replacements[k][2])}} :
         TRUE

\* the characters of the class [|!\"';~_]
NoiseChars == {"|", "!", "\"", "'", ";", "~", "_"}

clean_ocr_text(text) ==
  strip(CollapseSpace(DropChars(ApplyReplacements(text, 1), NoiseChars)))

(***************************************************************************)
(* Helpers of the document extractors                                      *)
(***************************************************************************)
\* for code, count in page_counts.items(): counts[code] += count
RECURSIVE MergeCounts(_, _)
MergeCounts(counts, page_counts) ==
  IF DOMAIN page_counts = {} THEN counts
  ELSE LET code == CHOOSE c \in DOMAIN page_counts : TRUE
           rest == [c \in DOMAIN page_counts \ {code} |-> page_counts[c]]
       IN MergeCounts(AddCount(counts, code, page_counts[code]), rest)

\* the first pass of extract_all_codes_from_pdf: the upper-cased words of one
\* to five letters and digits of all_text, "0" left out
GenericCodes(all_text) ==
  LET starts == {a \in 1..Len(all_text) :
                   /\ all_text[a] \in WordChar
                   /\ (a = 1 \/ all_text[a - 1] \notin WordChar)}
      EndOf(a) == SkipWhile(all_text, a, WordChar)
      Word(a) == SubSeq(all_text, a, EndOf(a) - 1)
  IN {upper(Word(a)) : a \in {b \in starts :
                                 /\ EndOf(b) - b <= 5
                                 /\ \A k \in b..(EndOf(b) - 1) : all_text[k] \in Alnum
                                 /\ Word(b) # <<"0">>}}

\* FallbackNeeded with the test lost: OCR runs after every native pass
FallbackAlways(native_results) == TRUE

\* "if not results" after the native pass (extract_materials), and the negation
\* of "if results: return" (extract_all_codes_from_pdf)
FallbackNeeded(native_results) == native_results = <<>>

\* StartsOver without the two assignments: the OCR pass adds to what is there
StartsOverNever(extractor) == FALSE

\* "results = []; code_counts = defaultdict(int)" ahead of the OCR loop
StartsOver(extractor) == extractor = "extract_all_codes_from_pdf"

\* the text a document extractor hands to extract_all_codes for OCR output
OcrPageText(extractor, ocr_text) ==
  IF extractor = "extract_all_codes_from_pdf" THEN clean_ocr_text(ocr_text) ELSE ocr_text

(***************************************************************************)
(* process_all_codes: the records that have a circle code, and their counts *)
(***************************************************************************)
\* filtered_results = [item for item in results if item['Circle Code']]
WithCircleCode(items) == SelectSeq(items, LAMBDA item : item.Circle_Code # <<>>)

\* for item in filtered_results: filtered_counts[item['Circle Code']] += 1
RECURSIVE CountEach(_, _)
CountEach(items, counts) ==
  IF Len(items) = 0 THEN counts
  ELSE CountEach(Tail(items), AddCount(counts, items[1].Circle_Code, 1))

\* filtered_counts of process_all_codes for what the extraction returned
filtered_counts(returned) == CountEach(WithCircleCode(returned), NoCounts)

(***************************************************************************)
(* process_pdf: the view filtered to the entered circle codes              *)
(***************************************************************************)
\* [f(x) for x in seq]: strip on every part
RECURSIVE StripAll(_)
StripAll(parts) ==
  IF Len(parts) = 0 THEN <<>> ELSE <<strip(parts[1])>> \o StripAll(Tail(parts))

\* [x for x in seq if x]: the non-empty parts
RECURSIVE NonEmpty(_)
NonEmpty(parts) ==
  IF Len(parts) = 0 THEN <<>>
  ELSE IF parts[1] = <<>> THEN NonEmpty(Tail(parts))
  ELSE <<parts[1]>> \o NonEmpty(Tail(parts))

\* [code.strip() for code in circle_codes_input.split(",") if code.strip()]
ParseCodes(input) == NonEmpty(StripAll(split(input, ",")))

\* [code.upper() for code in circle_codes]
UpperAll(codes) == [k \in 1..Len(codes) |-> upper(codes[k])]

\* item['Circle Code'] and item['Circle Code'].upper() in circle_codes_upper
Keeps(item, circle_codes_upper) ==
  /\ item.Circle_Code # <<>>
  /\ \E k \in 1..Len(circle_codes_upper) : circle_codes_upper[k] = upper(item.Circle_Code)

\* filtered_results = [item for item in all_results if ...]
RECURSIVE FilterResults(_, _)
FilterResults(items, circle_codes_upper) ==
  IF Len(items) = 0 THEN <<>>
  ELSE IF Keeps(items[1], circle_codes_upper)
       THEN <<items[1]>> \o FilterResults(Tail(items), circle_codes_upper)
       ELSE FilterResults(Tail(items), circle_codes_upper)

\* sum(1 for item in filtered_results if item['Circle Code'].upper() == code_upper)
CountFor(filtered, code_upper) ==
  Cardinality({k \in 1..Len(filtered) : upper(filtered[k].Circle_Code) = code_upper})

\* the counts printed, one for each entered code; nothing when no record is kept
ShownCounts(filtered, circle_codes_upper) ==
  IF filtered = <<>> THEN <<>>
  ELSE [k \in 1..Len(circle_codes_upper) |-> CountFor(filtered, circle_codes_upper[k])]

(***************************************************************************)
(* Lines and texts the bounded runs are drawn from                         *)
(***************************************************************************)
LineScenario1 ==
  <<"5", "R", "f", "i", "1", "2", "/", "8", "c", "m", ",", "L", "=", "3", ".", "5",
    "m", "'", " ", "T", "1">>

LineMaterialOnly ==
  <<"5", "R", "f", "i", "1", "2", "/", "8", "c", "m", ",", "L", "=", "3", ".", "5",
    "m", "'">>

LineCode ==
  <<"U", "T", "7", "a">>

LineCodeExtra ==
  <<"U", "T", "7", "a", " ", "e", "x", "t", "r", "a", " ", "t", "e", "x", "t">>

LineBlank ==
  <<" ">>

LineFormat2 ==
  <<"3", "r", "f", "i", "1", "0", "/", "5", "C", "M", " ", "x", "9", " ", "B", "2">>

LineNearMiss ==
  <<"5", "R", "f", "i", "1", "2", ",", "8", "c", "m", " ", "1", "2">>

LineShort ==
  <<"2", "R", "f", "i", "L", "=", "3", ".", "m", "RSQUO", "\r">>

LineTwoMaterials ==
  <<"x", " ", "1", "R", "f", "i", "2", "/", "3", "c", "m", " ", "4", "r", "f", "i", "5", "/", "6",
    "c", "m", ",", "L", "=", "7", "m">>

LineLowerCode ==
  <<"5", "R", "f", "i", "1", "2", "/", "8", "c", "m", ",", "L", "=", "3", ".", "5",
    "m", "'", " ", "t", "1">>

\* page texts: an image-only page, scenario 1, two material lines, a note
TextEmpty == <<>>

TextTwoMaterials == join(<<LineMaterialOnly, LineFormat2>>)

PageTexts ==
  {TextEmpty, LineScenario1, TextTwoMaterials, LineMaterialOnly, LineCodeExtra, LineLowerCode}

\* what the OCR engine may read from a page image
OcrTexts == {TextEmpty, LineScenario1, TextTwoMaterials}

\* characters the texts given to clean_ocr_text are made of
CleanChars == {".", "e", "m", " ", "L", "=", "|"}

\* what the user may type into the circle-code field
InputChoices ==
  {<<"T", "1">>,
   <<"t", "1", ",", "T", "2">>,
   <<"T", "1", ",", "T", "1">>,
   <<" ", "u", "t", "7", "a", " ", ",", " ", "T", "1">>,
   <<" ">>,
   <<",">>}

\* records a document extraction may return
RecordChoices ==
  {[Circle_Code |-> <<"T", "1">>, Material_Code |-> <<"5", "R", "f", "i", "1", "2", "/", "8", "c", "m">>, Page |-> 1],
   [Circle_Code |-> <<"T", "2">>, Material_Code |-> <<"5", "R", "f", "i", "1", "2", "/", "8", "c", "m">>, Page |-> 1],
   [Circle_Code |-> <<"U", "T", "7", "a">>, Material_Code |-> <<"2", "R", "f", "i", "L", "=", "3", "m">>, Page |-> 2],
   [Circle_Code |-> <<>>, Material_Code |-> <<"2", "R", "f", "i", "L", "=", "3", "m">>, Page |-> 2]}

LineChoices ==
  {LineScenario1, LineMaterialOnly, LineCode, LineCodeExtra, LineBlank,
   LineFormat2, LineNearMiss, LineShort, LineTwoMaterials}

(***************************************************************************)
(* State                                                                   *)
(***************************************************************************)
VARIABLES
  pc,                 \* where the running function stands
  fn,                 \* the document extractor that runs
  doc,                \* the text layer of the document, one text per page
  page_num,           \* pages handled so far by the running loop
  results,            \* the document extractor's record list
  counts,             \* the document extractor's count table
  renderCalls,        \* calls of convert_from_path so far
  ocrCalls,           \* calls of pytesseract.image_to_string so far
  raised,             \* the exception that left the extractor, "" for none
  nativeOutcome,      \* "pending", "ok" (the try block ended), "failed" (except taken)
  nativeRecs,         \* records the native pass has appended so far
  origin,             \* source of the last page text: "native", "ocr", "" for none
  result_sources,     \* for each record of results, the pass that appended it
  count_sources,      \* the passes that have incremented an entry of counts
  text,               \* the text last handed to a page-level function
  page_results,       \* extract_all_codes: its results list
  page_counts,        \* extract_all_codes: its counts table
  lines,              \* extract_all_codes: text.split("\n")
  i,                  \* extract_all_codes: index of the outer loop (1-based)
  cleaned,            \* successive outputs of clean_ocr_text
  all_results,        \* process_pdf: what extract_all_codes_from_pdf returned
  circle_codes_input, \* process_pdf: the text of the entry field
  circle_codes,       \* process_pdf: the entered codes
  filtered_results,   \* process_pdf: the records kept
  shown_counts        \* process_pdf: the count printed for each entered code

docVars ==
  <<fn, doc, page_num, results, counts, renderCalls, ocrCalls, raised,
    nativeOutcome, nativeRecs, origin, result_sources, count_sources>>

pageVars == <<text, page_results, page_counts>>

loopVars == <<lines, i>>

filterVars ==
  <<all_results, circle_codes_input, circle_codes, filtered_results, shown_counts>>

vars == <<pc, docVars, pageVars, loopVars, cleaned, filterVars>>

(***************************************************************************)
(* Bounds                                                                  *)
(***************************************************************************)
\* most lines of a page text
MaxLines == 3

\* most pages of a document
MaxPages == 2

\* most characters of a text given to clean_ocr_text
MaxTextLen == 3

\* most records of a document extraction handed to process_pdf
MaxRecords == 3

\* the non-empty sequences over S of length at most n
SeqsUpTo(S, n) == UNION {[1..k -> S] : k \in 1..n}

\* the sequences over S of length at most n, the empty one included
SeqsFromZero(S, n) == UNION {[1..k -> S] : k \in 0..n}

(***************************************************************************)
(* Values of the variables a specification does not use                    *)
(***************************************************************************)
DocIdle ==
  /\ fn = "" /\ doc = <<>> /\ page_num = 0
  /\ results = <<>> /\ counts = NoCounts
  /\ renderCalls = 0 /\ ocrCalls = 0 /\ raised = ""
  /\ nativeOutcome = "pending" /\ nativeRecs = 0 /\ origin = ""
  /\ result_sources = <<>> /\ count_sources = {}

PageIdle == text = <<>> /\ page_results = <<>> /\ page_counts = NoCounts

LoopIdle == lines = <<>> /\ i = 0

FilterIdle ==
  /\ all_results = <<>> /\ circle_codes_input = <<>> /\ circle_codes = <<>>
  /\ filtered_results = <<>> /\ shown_counts = <<>>

(***************************************************************************)
(* SpecPage: extract_all_codes on one page text, one loop pass per step    *)
(***************************************************************************)
InitPage ==
  /\ pc = "extract_all_codes"
  /\ text \in {join(ls) : ls \in SeqsUpTo(LineChoices, MaxLines)}
  /\ page_results = <<>>
  /\ page_counts = NoCounts
  /\ LoopIdle /\ DocIdle /\ FilterIdle /\ cleaned = <<>>

\* page_results, page_counts become the pair r
PageReturns(r) ==
  /\ page_results' = r.results
  /\ page_counts' = r.counts

\* the substitutions and the split that precede the loop
SplitText ==
  /\ pc = "extract_all_codes"
  /\ lines' = SplitLines(text)
  /\ i' = 1
  /\ pc' = "while"
  /\ UNCHANGED <<docVars, pageVars, cleaned, filterVars>>

\* one pass of the outer while loop
Iterate ==
  /\ pc = "while"
  /\ i <= Len(lines)
  /\ PageReturns(LoopBody([results |-> page_results, counts |-> page_counts], lines, i, 1))
  /\ i' = i + 1
  /\ UNCHANGED <<pc, docVars, text, lines, cleaned, filterVars>>

\* return results, counts
ReturnPage ==
  /\ pc = "while"
  /\ i > Len(lines)
  /\ pc' = "returned"
  /\ UNCHANGED <<docVars, pageVars, loopVars, cleaned, filterVars>>

NextPage == SplitText \/ Iterate \/ ReturnPage

SpecPage == InitPage /\ [][NextPage]_vars

(***************************************************************************)
(* Spec: extract_materials and extract_all_codes_from_pdf on one document  *)
(*                                                                         *)
(* Every call of a collaborator (fitz, pdf2image, pytesseract) either       *)
(* returns or raises.                                                      *)
(***************************************************************************)
Extractors == {"extract_materials", "extract_all_codes_from_pdf"}

Init ==
  /\ pc = "open"
  /\ fn \in Extractors
  /\ doc \in SeqsUpTo(PageTexts, MaxPages)
  /\ page_num = 0
  /\ results = <<>> /\ counts = NoCounts
  /\ renderCalls = 0 /\ ocrCalls = 0 /\ raised = ""
  /\ nativeOutcome = "pending" /\ nativeRecs = 0 /\ origin = ""
  /\ result_sources = <<>> /\ count_sources = {}
  /\ PageIdle /\ LoopIdle /\ FilterIdle /\ cleaned = <<>>

\* where control goes when the try block is left by an exception
AfterNativeFailure ==
  IF fn = "extract_materials" THEN "fallback_check" ELSE "ocr_render"

\* fitz.open(pdf_path) returns
Open ==
  /\ pc = "open"
  /\ pc' = IF fn = "extract_materials" THEN "native_loop" ELSE "first_pass"
  /\ UNCHANGED <<docVars, pageVars, loopVars, cleaned, filterVars>>

\* fitz.open or page.get_text raises: the except clause logs a warning
NativeFailure ==
  /\ pc \in {"open", "first_pass"} \/ (pc = "native_loop" /\ page_num < Len(doc))
  /\ nativeOutcome' = "failed"
  /\ pc' = AfterNativeFailure
  /\ UNCHANGED <<fn, doc, page_num, results, counts, renderCalls, ocrCalls, raised,
                 nativeRecs, origin, result_sources, count_sources,
                 pageVars, loopVars, cleaned, filterVars>>

\* extract_all_codes_from_pdf: the first pass finds no circle code and returns
FirstPassNoCodes ==
  /\ pc = "first_pass"
  /\ GenericCodes(join(doc)) = {}
  /\ results' = <<>>
  /\ counts' = NoCounts
  /\ result_sources' = <<>>
  /\ count_sources' = {}
  /\ nativeOutcome' = "ok"
  /\ pc' = "returned"
  /\ UNCHANGED <<fn, doc, page_num, renderCalls, ocrCalls, raised, nativeRecs, origin,
                 pageVars, loopVars, cleaned, filterVars>>

\* extract_all_codes_from_pdf: the first pass finds circle codes
FirstPassCodes ==
  /\ pc = "first_pass"
  /\ GenericCodes(join(doc)) # {}
  /\ pc' = "native_loop"
  /\ UNCHANGED <<docVars, pageVars, loopVars, cleaned, filterVars>>

\* results.extend(page_results); counts[code] += count for each page count
Accumulate ==
  /\ results' = results \o page_results'
  /\ counts' = MergeCounts(counts, page_counts')

\* the pass that runs notes what it has appended and whether it has counted
Note(source) ==
  /\ result_sources' = result_sources \o [k \in 1..Len(page_results') |-> source]
  /\ count_sources' =
       IF DOMAIN page_counts' = {} THEN count_sources ELSE count_sources \cup {source}

\* one pass of the native page loop: get_text, extract_all_codes, accumulate
NativePage ==
  /\ pc = "native_loop"
  /\ page_num < Len(doc)
  /\ text' = doc[page_num + 1]
  /\ PageReturns(extract_all_codes(doc[page_num + 1], page_num + 1))
  /\ Accumulate
  /\ Note("native")
  /\ nativeRecs' = nativeRecs + Len(page_results')
  /\ page_num' = page_num + 1
  /\ origin' = "native"
  /\ UNCHANGED <<pc, fn, doc, renderCalls, ocrCalls, raised, nativeOutcome,
                 loopVars, cleaned, filterVars>>

\* the native loop ends: "if not results" / "if results: return"
NativeEnd ==
  /\ pc = "native_loop"
  /\ page_num = Len(doc)
  /\ nativeOutcome' = "ok"
  /\ pc' = IF fn = "extract_materials" THEN "fallback_check"
           ELSE IF FallbackNeeded(results) THEN "ocr_render" ELSE "returned"
  /\ UNCHANGED <<fn, doc, page_num, results, counts, renderCalls, ocrCalls, raised,
                 nativeRecs, origin, result_sources, count_sources,
                 pageVars, loopVars, cleaned, filterVars>>

\* extract_materials, after the try statement: fall back to OCR if no results
FallbackCheck ==
  /\ pc = "fallback_check"
  /\ pc' = IF FallbackNeeded(results) THEN "ocr_render" ELSE "returned"
  /\ UNCHANGED <<docVars, pageVars, loopVars, cleaned, filterVars>>

\* convert_from_path returns one image per page; extract_all_codes_from_pdf
\* starts over with an empty list and an empty table
Render ==
  /\ pc = "ocr_render"
  /\ renderCalls' = renderCalls + 1
  /\ page_num' = 0
  /\ results' = IF StartsOver(fn) THEN <<>> ELSE results
  /\ counts' = IF StartsOver(fn) THEN NoCounts ELSE counts
  /\ result_sources' = IF StartsOver(fn) THEN <<>> ELSE result_sources
  /\ count_sources' = IF StartsOver(fn) THEN {} ELSE count_sources
  /\ pc' = "ocr_loop"
  /\ UNCHANGED <<fn, doc, ocrCalls, raised, nativeOutcome, nativeRecs, origin,
                 pageVars, loopVars, cleaned, filterVars>>

\* convert_from_path raises: nothing catches it
RenderFailure ==
  /\ pc = "ocr_render"
  /\ renderCalls' = renderCalls + 1
  /\ raised' = "RenderFailure"
  /\ pc' = "raised"
  /\ UNCHANGED <<fn, doc, page_num, results, counts, ocrCalls, nativeOutcome,
                 nativeRecs, origin, result_sources, count_sources,
                 pageVars, loopVars, cleaned, filterVars>>

\* one pass of the OCR page loop: image_to_string, (clean_ocr_text,)
\* extract_all_codes, accumulate
OcrPage ==
  /\ pc = "ocr_loop"
  /\ page_num < Len(doc)
  /\ \E ocr_text \in OcrTexts :
       /\ text' = ocr_text
       /\ \E page_text \in {OcrPageText(fn, ocr_text)} :
            PageReturns(extract_all_codes(page_text, page_num + 1))
  /\ Accumulate
  /\ Note("ocr")
  /\ ocrCalls' = ocrCalls + 1
  /\ page_num' = page_num + 1
  /\ origin' = "ocr"
  /\ UNCHANGED <<pc, fn, doc, renderCalls, raised, nativeOutcome, nativeRecs,
                 loopVars, cleaned, filterVars>>

\* image_to_string raises: nothing catches it
OcrFailure ==
  /\ pc = "ocr_loop"
  /\ page_num < Len(doc)
  /\ ocrCalls' = ocrCalls + 1
  /\ raised' = "OcrFailure"
  /\ pc' = "raised"
  /\ UNCHANGED <<fn, doc, page_num, results, counts, renderCalls, nativeOutcome,
                 nativeRecs, origin, result_sources, count_sources,
                 pageVars, loopVars, cleaned, filterVars>>

\* the OCR loop ends: return results, counts
OcrEnd ==
  /\ pc = "ocr_loop"
  /\ page_num = Len(doc)
  /\ pc' = "returned"
  /\ UNCHANGED <<docVars, pageVars, loopVars, cleaned, filterVars>>

Next ==
  \/ Open \/ NativeFailure \/ FirstPassNoCodes \/ FirstPassCodes
  \/ NativePage \/ NativeEnd \/ FallbackCheck
  \/ Render \/ RenderFailure \/ OcrPage \/ OcrFailure \/ OcrEnd

Spec == Init /\ [][Next]_vars

(***************************************************************************)
(* SpecClean: clean_ocr_text applied to a text, then to its own output     *)
(***************************************************************************)
InitClean ==
  /\ pc = "clean_ocr_text"
  /\ text \in SeqsFromZero(CleanChars, MaxTextLen)
  /\ cleaned = <<>>
  /\ page_results = <<>> /\ page_counts = NoCounts
  /\ LoopIdle /\ DocIdle /\ FilterIdle

\* clean_ocr_text on the text
CleanOnce ==
  /\ pc = "clean_ocr_text"
  /\ cleaned = <<>>
  /\ cleaned' = <<clean_ocr_text(text)>>
  /\ UNCHANGED <<pc, docVars, pageVars, loopVars, filterVars>>

\* clean_ocr_text on what it returned
CleanAgain ==
  /\ pc = "clean_ocr_text"
  /\ Len(cleaned) = 1
  /\ cleaned' = Append(cleaned, clean_ocr_text(cleaned[1]))
  /\ UNCHANGED <<pc, docVars, pageVars, loopVars, filterVars>>

NextClean == CleanOnce \/ CleanAgain

SpecClean == InitClean /\ [][NextClean]_vars

(***************************************************************************)
(* SpecFilter: process_pdf on the records of a document extraction         *)
(***************************************************************************)
InitFilter ==
  /\ pc = "process_pdf"
  /\ all_results \in SeqsFromZero(RecordChoices, MaxRecords)
  /\ circle_codes_input \in {strip(c) : c \in InputChoices}
  /\ circle_codes = <<>> /\ filtered_results = <<>> /\ shown_counts = <<>>
  /\ PageIdle /\ LoopIdle /\ DocIdle /\ cleaned = <<>>

\* "Please enter at least one circle code!" / "Please enter valid circle codes!"
RejectInput ==
  /\ pc = "process_pdf"
  /\ circle_codes_input = <<>> \/ ParseCodes(circle_codes_input) = <<>>
  /\ pc' = "rejected"
  /\ UNCHANGED <<docVars, pageVars, loopVars, cleaned, filterVars>>

\* the records are filtered and the counts of the entered codes are printed
ShowFiltered ==
  /\ pc = "process_pdf"
  /\ circle_codes_input # <<>>
  /\ ParseCodes(circle_codes_input) # <<>>
  /\ circle_codes' = ParseCodes(circle_codes_input)
  /\ filtered_results' = FilterResults(all_results, UpperAll(circle_codes'))
  /\ shown_counts' = ShownCounts(filtered_results', UpperAll(circle_codes'))
  /\ pc' = "shown"
  /\ UNCHANGED <<docVars, pageVars, loopVars, cleaned, all_results, circle_codes_input>>

NextFilter == RejectInput \/ ShowFiltered

SpecFilter == InitFilter /\ [][NextFilter]_vars

(***************************************************************************)
(* The grammars of the specification, stated apart from the matchers       *)
(***************************************************************************)
\* the class of a character: "U" upper, "L" lower, "D" digit, "x" anything else
ClassOf(c) ==
  IF c \in Upper THEN "U" ELSE IF c \in Lower THEN "L" ELSE IF c \in Digit THEN "D" ELSE "x"

ShapeOf(s) == [k \in 1..Len(s) |-> ClassOf(s[k])]

\* one or two upper-case letters, one or two digits, an optional lower-case
\* letter; or a bare number of one to three digits
StrictShapes ==
  {<<"U", "D">>, <<"U", "D", "D">>, <<"U", "U", "D">>, <<"U", "U", "D", "D">>,
   <<"U", "D", "L">>, <<"U", "D", "D", "L">>, <<"U", "U", "D", "L">>,
   <<"U", "U", "D", "D", "L">>, <<"D">>, <<"D", "D">>, <<"D", "D", "D">>}

IsStrictCode(s) == ShapeOf(s) \in StrictShapes

\* the positions of s at which some strict circle code begins
StrictStarts(s) ==
  {p \in 1..Len(s) : \E q \in p..Len(s) : IsStrictCode(SubSeq(s, p, q))}

\* positions reached from a position of P by one or more digits
AfterInt(s, P) ==
  {q \in 2..(Len(s) + 1) : \E a \in P : a < q /\ \A k \in a..(q - 1) : s[k] \in Digit}

\* positions reached from a position of P by the literal lit, ignoring case
AfterLit(s, P, lit) == {a + Len(lit) : a \in {b \in P : HasAtCI(s, b, lit)}}

\* positions reached from a position of P by zero or more ("/" <int>)
RECURSIVE AfterSlashInts(_, _)
AfterSlashInts(s, P) ==
  LET Q == P \cup AfterInt(s, AfterLit(s, P, <<"/">>))
  IN IF Q = P THEN P ELSE AfterSlashInts(s, Q)

\* Form A: <int> "Rfi" [<int> ("/" <int>)*] ["cm"] [","] "L=" <number> "m" [apostrophe]
\* the positions at which a Form A string that starts at p may end
FormAEnds(s, p) ==
  LET p1 == AfterLit(s, AfterInt(s, {p}), <<"r", "f", "i">>)
      p2 == p1 \cup AfterSlashInts(s, AfterInt(s, p1))
      p3 == p2 \cup AfterLit(s, p2, <<"c", "m">>)
      p4 == p3 \cup AfterLit(s, p3, <<",">>)
      p5 == AfterInt(s, AfterLit(s, p4, <<"l", "=">>))
      p6 == p5 \cup AfterLit(s, p5, <<".">>)
      p7 == p6 \cup AfterInt(s, p6)
      p8 == AfterLit(s, p7, <<"m">>)
  IN p8 \cup AfterLit(s, p8, <<"'">>)

\* Form B: <int> "Rfi" <int> "/" <int> "cm"
FormBEnds(s, p) ==
  AfterLit(s,
    AfterInt(s, AfterLit(s, AfterInt(s, AfterLit(s, AfterInt(s, {p}), <<"r", "f", "i">>)),
                         <<"/">>)),
    <<"c", "m">>)

\* the whole of s is a material code
IsMaterialCode(s) ==
  (Len(s) + 1) \in (FormAEnds(s, 1) \cup FormBEnds(s, 1))

\* some substring of s is a material code
ContainsMaterialCode(s) ==
  \E p \in 1..Len(s) : (FormAEnds(s, p) \cup FormBEnds(s, p)) # {}

(***************************************************************************)
(* Claims on extract_all_codes (SpecPage)                                  *)
(***************************************************************************)
\* the line the next loop pass looks at, and the text right of its material code
CurrentLine == strip(lines[i])

RightText == From(CurrentLine, material_pattern_search(CurrentLine)[2])

\* the next loop pass is about to handle a line holding a material code
AtMaterialLine ==
  /\ pc = "while"
  /\ i <= Len(lines)
  /\ material_pattern_search(CurrentLine)[1] # 0

\* the record the loop pass has just appended
Appended == page_results'[Len(page_results')]

\* C4: when the text right of the material code on its line holds a strict
\* circle code, the loop pass appends one record whose circle code is a strict
\* code standing at the leftmost position of that text where one begins,
\* whatever the following lines are.
C4_SameLineLeftmost ==
  [][(AtMaterialLine /\ StrictStarts(RightText) # {}) =>
       /\ Len(page_results') = Len(page_results) + 1
       /\ IsStrictCode(Appended.Circle_Code)
       /\ HasAt(RightText, Least(StrictStarts(RightText)), Appended.Circle_Code)]_vars

\* a material line carrying two candidates ("9" before "B2") was handled, the
\* line after it being a full circle code of its own
C4_Witness ==
  /\ pc = "while"
  /\ i = 2
  /\ Len(lines) >= 2
  /\ lines[1] = LineFormat2
  /\ lines[2] = LineCode
  /\ page_results = <<Record(<<"9">>, <<"3", "r", "f", "i", "1", "0", "/", "5", "C", "M">>, 1)>>

\* the circle code the next-line rule gives to the material code of line i:
\* the first later line that is not blank, when all of it is a strict code
NextLineCode ==
  LET later == {j \in (i + 1)..Len(lines) : \E k \in 1..Len(lines[j]) : lines[j][k] \notin Space}
  IN IF later = {} THEN <<>>
     ELSE IF IsStrictCode(strip(lines[Least(later)])) THEN strip(lines[Least(later)])
     ELSE <<>>

\* C5: when the text right of the material code holds no strict circle code,
\* the loop pass appends one record whose circle code is the first non-blank
\* later line if the whole of that line, trimmed, is a strict code, and is
\* absent otherwise; no line after that one matters.
C5_NextLine ==
  [][(AtMaterialLine /\ StrictStarts(RightText) = {}) =>
       /\ Len(page_results') = Len(page_results) + 1
       /\ Appended.Circle_Code = NextLineCode]_vars

\* scenario 3: the candidate line "UT7a extra text" is no full match, the code
\* line after it is never looked at, and the circle code stays absent
C5_Witness ==
  /\ pc = "while"
  /\ i = 2
  /\ lines = <<LineMaterialOnly, LineCodeExtra, LineCode>>
  /\ page_results = <<Record(<<>>, SubSeq(LineMaterialOnly, 1, Len(LineMaterialOnly) - 1), 1)>>

\* C7: the material code of every record is a Form A or a Form B string, holds
\* no white space and does not end in an apostrophe, and a line no substring of
\* which is a Form A or Form B string adds no record.
C7_GrammarSound ==
  /\ [](\A k \in 1..Len(page_results) :
          /\ IsMaterialCode(page_results[k].Material_Code)
          /\ ~HasAt(page_results[k].Material_Code,
                    Len(page_results[k].Material_Code), <<"'">>)
          /\ \A n \in 1..Len(page_results[k].Material_Code) :
               page_results[k].Material_Code[n] \notin Space)
  /\ [][(pc = "while" /\ i <= Len(lines) /\ ~ContainsMaterialCode(CurrentLine)) =>
          page_results' = page_results]_vars

\* the near miss "5Rfi12,8cm 12" was passed over and a Form B code in other
\* letter case was recorded
C7_Witness ==
  /\ pc = "while"
  /\ i = 3
  /\ lines[1] = LineNearMiss
  /\ lines[2] = LineFormat2
  /\ Len(page_results) = 1
  /\ page_results[1].Material_Code = <<"3", "r", "f", "i", "1", "0", "/", "5", "C", "M">>

\* the positions of s at which some Form A or Form B string begins
MaterialStarts(s) ==
  {p \in 1..Len(s) : (FormAEnds(s, p) \cup FormBEnds(s, p)) # {}}

\* the lines of the page that hold a material code
MaterialLines ==
  {j \in 1..Len(lines) : ContainsMaterialCode(strip(lines[j]))}

\* C12: the loop takes the lines in order, one per pass; a pass over a line
\* that holds a material code appends exactly one record after the records
\* already there, for the material code that begins leftmost on the line,
\* with or without a circle code and also when the line has been looked at
\* before as the line following a material line; a pass over any other line
\* appends nothing; so the page returns one record per material line.
C12_RecordsPerLine ==
  /\ [][(pc = "while" /\ i <= Len(lines)) =>
          /\ i' = i + 1
          /\ IF ContainsMaterialCode(CurrentLine)
             THEN /\ Len(page_results') = Len(page_results) + 1
                  /\ SubSeq(page_results', 1, Len(page_results)) = page_results
                  /\ HasAt(CurrentLine, Least(MaterialStarts(CurrentLine)),
                           Appended.Material_Code)
             ELSE page_results' = page_results]_vars
  /\ [](pc = "returned" => Len(page_results) = Cardinality(MaterialLines))

\* a material line without a code, a blank line, then a line with two material
\* codes that was first looked at as the following line: two records, the
\* second for "1Rfi2/3cm" with the code "4" found right of it
C12_Witness ==
  /\ pc = "returned"
  /\ lines = <<LineMaterialOnly, LineBlank, LineTwoMaterials>>
  /\ Len(page_results) = 2
  /\ page_results[1].Circle_Code = <<>>
  /\ page_results[2] = Record(<<"4">>, <<"1", "R", "f", "i", "2", "/", "3", "c", "m">>, 1)

(***************************************************************************)
(* Claims on the document extractors (Spec)                                *)
(***************************************************************************)
NoOcr == renderCalls = 0 /\ ocrCalls = 0

\* C1 as stated: once the native pass has produced a record, neither
\* convert_from_path nor image_to_string is ever called, wherever a native
\* page read fails.
C1_AsStated == nativeRecs >= 1 => NoOcr

\* C1, amended: once the native pass has produced a record, neither
\* convert_from_path nor image_to_string is ever called, for any number of
\* pages; in extract_materials wherever a native read fails, in
\* extract_all_codes_from_pdf as long as no native read fails.
C1_FallbackExclusive ==
  (nativeRecs >= 1 /\ ~(fn = "extract_all_codes_from_pdf" /\ nativeOutcome = "failed"))
    => NoOcr

\* a two-page document went through extract_all_codes_from_pdf natively, gave
\* records and was returned without any OCR call
C1_Witness ==
  /\ pc = "returned"
  /\ fn = "extract_all_codes_from_pdf"
  /\ Len(doc) = 2
  /\ nativeOutcome = "ok"
  /\ nativeRecs >= 1
  /\ Len(results) = nativeRecs
  /\ NoOcr

\* C2: a document extraction that returns an empty record list has called the
\* OCR fallback (the page rendering) before returning.
C2_EmptyOnlyAfterOcr == (pc = "returned" /\ results = <<>>) => renderCalls >= 1

\* the number of records of rs whose circle code is code
Occurrences(rs, code) == Cardinality({k \in 1..Len(rs) : rs[k].Circle_Code = code})

\* the sum of the values of a count table
RECURSIVE SumCounts(_)
SumCounts(cs) ==
  IF DOMAIN cs = {} THEN 0
  ELSE LET c == CHOOSE d \in DOMAIN cs : TRUE
       IN cs[c] + SumCounts([d \in DOMAIN cs \ {c} |-> cs[d]])

\* the count table cs counts the present circle codes of rs and nothing else
Consistent(rs, cs) ==
  /\ SumCounts(cs) = Cardinality({k \in 1..Len(rs) : rs[k].Circle_Code # <<>>})
  /\ <<>> \notin DOMAIN cs
  /\ \A c \in DOMAIN cs : cs[c] = Occurrences(rs, c)

\* C3: for the pair returned by extract_all_codes for a page and for the pair
\* a document extraction has accumulated after any number of pages, the counts
\* sum to the number of records with a present circle code, each count is the
\* number of records with that code, and the absent code is never counted.
C3_CountConsistency ==
  /\ Consistent(page_results, page_counts)
  /\ Consistent(results, counts)

\* a run returned three records, one of them without a circle code, with a
\* count table that sums to two
C3_Witness ==
  /\ pc = "returned"
  /\ Len(results) = 3
  /\ \E k \in 1..3 : results[k].Circle_Code = <<>>
  /\ SumCounts(counts) = 2

\* C8: a failure of the native text source is caught, counts as zero native
\* records and is followed by the OCR fallback; only a failure of the page
\* rendering or of the OCR engine leaves the extraction as an exception.
C8_FailureHandling ==
  /\ (nativeOutcome = "failed" /\ pc = "returned") => renderCalls >= 1
  /\ (pc = "raised") <=> (raised \in {"RenderFailure", "OcrFailure"})

\* C10: the records and counts the OCR branch gets from a page text are the
\* ones the native branch gets from the same text.
C10_OriginIndependent ==
  origin = "ocr" =>
    /\ page_results = extract_all_codes(text, page_num).results
    /\ page_counts = extract_all_codes(text, page_num).counts

\* the state of the source-selection machine the extractor is in
Phase ==
  IF pc \in {"open", "first_pass", "native_loop", "fallback_check"} THEN "TryNative"
  ELSE IF pc \in {"ocr_render", "ocr_loop"} THEN "TryOcr"
  ELSE IF pc = "returned" THEN "Done"
  ELSE "Raised"

\* the passes that have a record in results or an increment in counts
SourcesUsed ==
  {result_sources[k] : k \in 1..Len(result_sources)} \cup count_sources

\* C11: the records and the count increments an extraction holds, and so the
\* ones it returns, come from one pass only, the native one or the OCR one; a
\* result returned after the OCR pass has begun holds nothing of the native
\* pass; and a run that does not end in an exception goes from TryNative to
\* Done, or from TryNative to TryOcr and from there to Done.
C11_NeverMerged ==
  /\ [](Cardinality(SourcesUsed) <= 1)
  /\ []((pc = "returned" /\ renderCalls >= 1) => "native" \notin SourcesUsed)
  /\ [][(Phase' # Phase /\ Phase' # "Raised") =>
          <<Phase, Phase'>> \in {<<"TryNative", "Done">>, <<"TryNative", "TryOcr">>,
                                 <<"TryOcr", "Done">>}]_vars

\* the native pass of extract_all_codes_from_pdf appended a record and counted
\* it, then failed; the OCR pass ran, and what is returned is OCR output only
C11_Witness ==
  /\ pc = "returned"
  /\ fn = "extract_all_codes_from_pdf"
  /\ nativeOutcome = "failed"
  /\ nativeRecs >= 1
  /\ results # <<>>
  /\ Len(result_sources) = Len(results)
  /\ SourcesUsed = {"ocr"}
  /\ count_sources = {"ocr"}

(***************************************************************************)
(* Claim on clean_ocr_text (SpecClean)                                     *)
(***************************************************************************)
\* C6: cleaning a text twice gives what cleaning it once gives.
C6_Idempotent == Len(cleaned) = 2 => cleaned[2] = cleaned[1]

(***************************************************************************)
(* Claim on process_pdf (SpecFilter)                                       *)
(***************************************************************************)
\* a and b are the same string but for the case of their letters
SameIgnoringCase(a, b) ==
  /\ Len(a) = Len(b)
  /\ \A k \in 1..Len(a) : LowerChar(a[k]) = LowerChar(b[k])

\* the record r has a circle code that some entered code names
Named(r) ==
  /\ r.Circle_Code # <<>>
  /\ \E k \in 1..Len(circle_codes) : SameIgnoringCase(r.Circle_Code, circle_codes[k])

\* the sum of a sequence of numbers
RECURSIVE SumSeq(_)
SumSeq(ns) == IF Len(ns) = 0 THEN 0 ELSE ns[1] + SumSeq(Tail(ns))

\* C9: the filtered view holds exactly the records whose circle code is
\* present and is named, ignoring case, by an entered code, in their original
\* order, and the counts printed for the entered codes sum to the number of
\* records kept.
C9_FilteredView ==
  pc = "shown" =>
    /\ filtered_results = SelectSeq(all_results, Named)
    /\ SumSeq(shown_counts) = Len(filtered_results)

(***************************************************************************)
(* Claim on the keys of the count tables (Spec)                            *)
(***************************************************************************)
\* no two keys of the count table cs differ in the case of their letters only
CaseDistinct(cs) ==
  \A a \in DOMAIN cs : \A b \in DOMAIN cs : SameIgnoringCase(a, b) => a = b

\* C13: in the count table extract_all_codes returns for a page, in the one a
\* document extractor accumulates and in the one process_all_codes builds from
\* the returned records, no two distinct keys are equal ignoring case.
C13_CaseNormalizedKeys ==
  /\ CaseDistinct(page_counts)
  /\ CaseDistinct(counts)
  /\ (pc = "returned" /\ fn = "extract_all_codes_from_pdf") =>
       CaseDistinct(filtered_counts(results))

\* a document with the code "T1" on page 1 and "t1" on page 2 was returned:
\* the second is counted as the number "1", and the table has two keys
C13_Witness ==
  /\ pc = "returned"
  /\ fn = "extract_all_codes_from_pdf"
  /\ doc = <<LineScenario1, LineLowerCode>>
  /\ NoOcr
  /\ DOMAIN counts = {<<"T", "1">>, <<"1">>}
  /\ filtered_counts(results) = counts

====
